---- MODULE Spec2Model ----
(***************************************************************************)
(* map-leads-backend (src/src/index.ts): the search execution pipeline     *)
(* (POST /api/run-apify-search) and the account lifecycle operations       *)
(* (POST /api/superadmin-users) over the four Firestore collections        *)
(* profiles, searches, leads and subscriptions and the identity service.   *)
(*                                                                         *)
(* Every request handler is a process; one action is one stretch of the    *)
(* handler between two awaited store operations, so that handlers          *)
(* interleave exactly where the Node event loop lets them.  A stretch that *)
(* touches the store once and otherwise only local data is one atomic      *)
(* step.                                                                   *)
(*                                                                         *)
(* The leads collection is a bag of documents: documents get fresh random  *)
(* ids (index.ts:213) that nothing ever reads, so two documents with equal *)
(* fields are interchangeable.  A handler that holds a reference to a      *)
(* document it looked up marks it in the field pin, which stands for the   *)
(* document id it holds.  A lead array is kept run-length encoded, as a    *)
(* sequence of groups [website, email, n] (n equal consecutive leads), so  *)
(* that arrays of more than 400 leads stay small.                          *)
(*                                                                         *)
(* Failures of the environment: a batch commit of writeLeadsAndFinalize,   *)
(* the provider calls, the failure-recording write of the outer handler,   *)
(* the enrichment fetch/write, the two best-effort deletes of delete_user  *)
(* and the identity service calls may fail.  Reads, the other              *)
(* single-document writes and the deletion batches are taken to succeed.   *)
(***************************************************************************)
EXTENDS Integers, Sequences, FiniteSets, Bags, TLC

\* ------------------------------------------------------------------ bounds
\* Number of requests (to either endpoint) in one behaviour.
MaxRequests == 2

\* ------------------------------------------------------- program constants
\* chunkArray(leads, 400)
ChunkSize == 400
\* .limit(400) of deleteByUserId
DeletePageSize == 400
\* Math.min(search.max_results || 100, 10)
MockCap == 10
MockDefaultMax == 100
\* .slice(0, 20) of maybeEnrichEmails
CandidateCap == 20
\* profile.leads_limit ?? 2000
DefaultLeadsLimit == 2000

PLAN_LIMITS == [starter |-> 2000, growth |-> 5000, pro |-> 15000]
PlanType == {"starter", "growth", "pro"}

SUPERADMIN_EMAIL == "afiliadosprobusiness@gmail.com"

\* null / undefined of a string field, and of a number field
NULL == "null"
NoNum == -1

\* ------------------------------------------------------------ the universe
\* Accounts: adm is the account whose verified e-mail is the superadmin's.
Users == {"adm", "u1"}
\* Request tokens: an account's valid token, or none / an invalid one.
NoToken == "no-token"
\* Search ids a caller may send: s1, s2 belong to u1, s3 to adm, s0 to nobody.
SearchIds == {"s0", "s1", "s2", "s3"}
NoSearchId == "no-id"
\* The request handlers of POST /api/run-apify-search that may be in flight
\* (slots: a request takes the lowest free one).
Procs == {1, 2}

\* decoded.email of each account's token (the superadmin's in mixed case).
TokenEmail == [adm |-> "Afiliadosprobusiness@Gmail.com", u1 |-> "user1@example.com"]

\* String.prototype.toLowerCase on the e-mails above.
ToLowerCase(e) ==
  IF e = "Afiliadosprobusiness@Gmail.com" THEN "afiliadosprobusiness@gmail.com" ELSE e

Min(a, b) == IF a <= b THEN a ELSE b
Max(a, b) == IF a >= b THEN a ELSE b

\* ------------------------------------------------------------- documents
AbsentProfile ==
  [exists |-> FALSE, plan |-> NULL, leads_used |-> NoNum, leads_limit |-> NoNum,
   is_suspended |-> FALSE, suspended_at |-> NULL]

\* Of a Search the fields the handlers read or the design constrains are
\* kept (not keyword, city, country, apify_run_id, updated_at).
AbsentSearch ==
  [exists |-> FALSE, user_id |-> NULL, max_results |-> NoNum, status |-> NULL,
   total_results |-> NoNum, error_message |-> NULL]

AbsentSubscription == [exists |-> FALSE, user_id |-> NULL, plan |-> NULL, status |-> NULL]

\* ref.set(fields, {merge: true}) creates the document when it is absent.
Touch(doc) == [doc EXCEPT !.exists = TRUE]

\* Responses: sendError(res, status, message), or res.json of a success.
NoResp == [code |-> 0, error |-> NULL, mode |-> NULL, leads |-> 0, users |-> {}]
ErrorResp(status, message) == [NoResp EXCEPT !.code = status, !.error = message]
SuccessResp(mode, n) == [NoResp EXCEPT !.code = 200, !.mode = mode, !.leads = n]

\* ------------------------------------------------- run-length lead arrays
RECURSIVE PayloadLen(_)
PayloadLen(items) ==
  IF items = <<>> THEN 0 ELSE Head(items).n + PayloadLen(Tail(items))

\* Number of leads before group i.
Offset(items, i) == PayloadLen(SubSeq(items, 1, i - 1))

\* Array.prototype.slice(lo, hi): the leads at (0-based) positions lo .. hi-1.
Slice(items, lo, hi) ==
  LET cut == [i \in 1..Len(items) |->
                [items[i] EXCEPT !.n =
                   Max(0, Min(Offset(items, i) + items[i].n, hi) - Max(Offset(items, i), lo))]]
      Kept(g) == g.n > 0
  IN  SelectSeq(cut, Kept)

\* The lead at (1-based) position pos.
ItemAt(items, pos) ==
  items[CHOOSE i \in 1..Len(items) :
          Offset(items, i) < pos /\ pos <= Offset(items, i) + items[i].n]

\* A chunking whose slices take one item too many.
chunkArrayOverlong(items, chunkSize) ==
  LET len == PayloadLen(items)
      count == (len + chunkSize - 1) \div chunkSize
  IN  [k \in 1..count |-> Slice(items, (k - 1) * chunkSize, k * chunkSize + 1)]

\* chunkArray (index.ts:135)
chunkArray(items, chunkSize) ==
  LET len == PayloadLen(items)
      count == (len + chunkSize - 1) \div chunkSize
  IN  [k \in 1..count |-> Slice(items, (k - 1) * chunkSize, k * chunkSize)]

\* ----------------------------------------------------------- normalizer
\* Values a provider record may carry where a string is expected.
BlankStrings == {"", "   "}
NotAString == "<number>"

\* asStringOrNull (index.ts:130)
asStringOrNull(value) ==
  IF value = NotAString \/ value = NULL \/ value \in BlankStrings THEN NULL ELSE value

\* normalizeApifyLeads (index.ts:160), on the fields the pipeline reads.
normalizeApifyLeads(items) ==
  [i \in 1..Len(items) |->
     [website |-> asStringOrNull(items[i].website),
      email   |-> asStringOrNull(items[i].email),
      n       |-> items[i].n]]

ExampleSites ==
  << "https://example1.com", "https://example2.com", "https://example3.com",
     "https://example4.com", "https://example5.com", "https://example6.com",
     "https://example7.com", "https://example8.com", "https://example9.com",
     "https://example10.com" >>

\* buildMockLeads (index.ts:143): max_results || 100 takes 100 for 0.
buildMockLeads(max_results) ==
  LET maxItems == Min(IF max_results = 0 THEN MockDefaultMax ELSE max_results, MockCap)
  IN  [i \in 1..maxItems |-> [website |-> ExampleSites[i], email |-> NULL, n |-> 1]]

\* Datasets the provider may return (raw records, run-length encoded).
SiteA == "https://a.com"
MailA == "a@b.com"
PageMail == "info@a.com"
RawDatasets ==
  { <<>>,
    << [website |-> SiteA, email |-> "", n |-> 1] >>,
    << [website |-> SiteA, email |-> "", n |-> 2] >>,
    << [website |-> SiteA, email |-> MailA, n |-> 1],
       [website |-> SiteA, email |-> NotAString, n |-> 1] >>,
    << [website |-> "   ", email |-> NULL, n |-> ChunkSize] >>,
    << [website |-> NULL, email |-> NULL, n |-> ChunkSize + 1] >> }

\* --------------------------------------------------------------- state
VARIABLES
  profiles,        \* collection profiles, keyed by account id
  searches,        \* collection searches, keyed by search id
  leads,           \* collection leads, a bag of documents
  subscriptions,   \* collection subscriptions, keyed by account id
  identity,        \* the identity service's users
  apifyToken,      \* whether process.env.APIFY_TOKEN is set
  run,             \* the run-apify-search handlers in flight
  adm,             \* the superadmin-users handler in flight
  nRequests        \* requests received so far

vars ==
  <<profiles, searches, leads, subscriptions, identity, apifyToken, run, adm, nRequests>>

IdleRun ==
  [pc |-> "idle", uid |-> NULL, sid |-> NULL, max_results |-> 0,
   leadsUsed |-> 0, leadsLimit |-> 0, plan |-> NULL, suspended |-> FALSE,
   leads |-> <<>>, index |-> 0, ci |-> 0, email |-> NULL,
   msg |-> NULL, resp |-> NoResp]

IdleAdmin ==
  [pc |-> "idle", requester |-> NULL, action |-> NULL, user_id |-> NULL, plan |-> NULL,
   resp |-> NoResp]

Owner(sid) == IF sid \in {"s1", "s2"} THEN "u1" ELSE "adm"

\* The state the front end leaves: every account has a Profile, every Search
\* is queued and belongs to an account (u1 is on plan growth, with no usage
\* or with its quota used up; adm is on plan starter).
Init ==
  /\ \E used \in {0, PLAN_LIMITS["growth"]} :
        profiles = [u \in Users |->
          [exists |-> TRUE,
           plan |-> IF u = "u1" THEN "growth" ELSE "starter",
           leads_used |-> IF u = "u1" THEN used ELSE 0,
           leads_limit |-> IF u = "u1" THEN PLAN_LIMITS["growth"] ELSE PLAN_LIMITS["starter"],
           is_suspended |-> FALSE, suspended_at |-> NULL]]
  /\ searches = [s \in SearchIds |->
        IF s = "s0" THEN AbsentSearch
        ELSE [exists |-> TRUE, user_id |-> Owner(s),
              max_results |-> IF s = "s1" THEN 0 ELSE IF s = "s2" THEN 1 ELSE 3,
              status |-> "queued", total_results |-> 0,
              error_message |-> NULL]]
  /\ leads = EmptyBag
  /\ subscriptions = [u \in Users |-> AbsentSubscription]
  /\ identity = [u \in Users |-> [exists |-> TRUE, disabled |-> FALSE]]
  /\ apifyToken \in BOOLEAN
  /\ run = [p \in Procs |-> IdleRun]
  /\ adm = IdleAdmin
  /\ nRequests = 0

\* ------------------------------------------- POST /api/run-apify-search
\* Handler p goes on as r.
Continue(p, r) == run' = [run EXCEPT ![p] = r]

\* Handler p, whose locals are r, sends response: the request and the
\* response stay with the handler until the request is closed.
Respond(p, r, response) ==
  run' = [run EXCEPT ![p] =
            [IdleRun EXCEPT !.pc = "done", !.uid = r.uid, !.sid = r.sid, !.resp = response]]

\* The request of handler p is over.
Close(p) ==
  /\ run[p].pc = "done"
  /\ run' = [run EXCEPT ![p] = IdleRun]
  /\ UNCHANGED <<profiles, searches, leads, subscriptions, identity, apifyToken, adm, nRequests>>

\* A lookup that tells a Search of another account from a missing one.
SearchLookupLeaky(search, uid) ==
  IF ~search.exists THEN ErrorResp(404, "Search not found")
  ELSE IF search.user_id # uid THEN ErrorResp(403, "Forbidden")
  ELSE NoResp

\* The ownership check of index.ts:309-318.
SearchLookup(search, uid) ==
  IF ~search.exists THEN ErrorResp(404, "Search not found")
  ELSE IF search.user_id # uid THEN ErrorResp(404, "Search not found")
  ELSE NoResp

\* index.ts:294-318: authentication, validation, the Search read and the
\* ownership check.  verifyIdToken does not check revocation, so a disabled
\* or deleted account's token is still accepted.
Invoke(p, token, sid) ==
  /\ run[p].pc = "idle"
  /\ \A q \in Procs : run[q].pc = "idle" => p <= q
  /\ nRequests < MaxRequests
  /\ nRequests' = nRequests + 1
  /\ IF token = NoToken
       THEN Respond(p, [IdleRun EXCEPT !.uid = token], ErrorResp(401, "Unauthorized"))
     ELSE LET r == [IdleRun EXCEPT !.uid = token, !.sid = sid] IN
       IF sid = NoSearchId
         THEN Respond(p, r, ErrorResp(400, "search_id required"))
       ELSE IF SearchLookup(searches[sid], token) # NoResp
         THEN Respond(p, r, SearchLookup(searches[sid], token))
       ELSE Continue(p, [r EXCEPT !.pc = "profile", !.max_results = searches[sid].max_results])
  /\ UNCHANGED <<profiles, searches, leads, subscriptions, identity, apifyToken, adm>>

\* index.ts:320-330: the Profile read and its defaults.
ReadProfile(p) ==
  /\ run[p].pc = "profile"
  /\ LET r == run[p]
         profile == profiles[r.uid]
     IN  IF ~profile.exists
           THEN Respond(p, r, ErrorResp(500, "Profile not found"))
           ELSE Continue(p,
                  [r EXCEPT !.pc = "guard",
                            !.leadsUsed = IF profile.leads_used = NoNum THEN 0
                                          ELSE profile.leads_used,
                            !.leadsLimit = IF profile.leads_limit = NoNum THEN DefaultLeadsLimit
                                           ELSE profile.leads_limit,
                            !.plan = IF profile.plan = NULL THEN "starter" ELSE profile.plan,
                            !.suspended = profile.is_suspended])
  /\ UNCHANGED <<profiles, searches, leads, subscriptions, identity, apifyToken, adm, nRequests>>

\* The guards with the quota check first.
GuardDecisionQuotaFirst(is_suspended, leadsUsed, leadsLimit) ==
  IF leadsUsed >= leadsLimit THEN "Leads quota exceeded"
  ELSE IF is_suspended THEN "Account suspended"
  ELSE "proceed"

\* The guards with a quota check that lets leads_used = leads_limit pass.
GuardDecisionStrict(is_suspended, leadsUsed, leadsLimit) ==
  IF is_suspended THEN "Account suspended"
  ELSE IF leadsUsed > leadsLimit THEN "Leads quota exceeded"
  ELSE "proceed"

\* The order and the comparisons of the two guards, index.ts:332 and 338.
GuardDecision(is_suspended, leadsUsed, leadsLimit) ==
  IF is_suspended THEN "Account suspended"
  ELSE IF leadsUsed >= leadsLimit THEN "Leads quota exceeded"
  ELSE "proceed"

\* searchRef.set({status, error_message, updated_at}, {merge: true})
SetStatus(doc, status, message) ==
  [Touch(doc) EXCEPT !.status = status, !.error_message = message]

\* A finalizing write that leaves total_results as it was.
CompletedSearchKeepTotal(doc, n) == SetStatus(doc, "completed", NULL)

\* The Search update of writeLeadsAndFinalize, index.ts:194-202 and 224-233.
CompletedSearch(doc, n) == [SetStatus(doc, "completed", NULL) EXCEPT !.total_results = n]

\* index.ts:332-351: the guards and the write each of them leads to; in
\* demo mode the mock leads are built before the next await.
Guard(p) ==
  /\ run[p].pc = "guard"
  /\ LET r == run[p]
         decision == GuardDecision(r.suspended, r.leadsUsed, r.leadsLimit)
     IN  IF decision = "Account suspended"
           THEN /\ searches' = [searches EXCEPT ![r.sid] = SetStatus(@, "failed", decision)]
                /\ Respond(p, r, ErrorResp(403, decision))
         ELSE IF decision = "Leads quota exceeded"
           THEN /\ searches' = [searches EXCEPT ![r.sid] = SetStatus(@, "failed", decision)]
                /\ Respond(p, r, ErrorResp(429, decision))
         ELSE /\ searches' = [searches EXCEPT ![r.sid] = SetStatus(@, "running", NULL)]
              /\ Continue(p, IF apifyToken
                               THEN [r EXCEPT !.pc = "provider"]
                               ELSE [r EXCEPT !.pc = "finalize",
                                              !.leads = buildMockLeads(r.max_results)])
  /\ UNCHANGED <<profiles, leads, subscriptions, identity, apifyToken, adm, nRequests>>

\* index.ts:353-387, without the zero-result write: the provider run, the
\* write of its id (merge: it creates the document when it is absent) and
\* the dataset items.  A non-success response or a transport error throws,
\* a run descriptor may lack id or defaultDatasetId, a dataset body that is
\* no JSON throws and one that is no array gives no leads.  The calls to
\* the provider touch no store, so they are one step with the write.
ProviderCall(p) ==
  /\ run[p].pc = "provider"
  /\ \/ /\ Continue(p, [run[p] EXCEPT !.pc = "catch", !.msg = "Apify error [502]: bad gateway"])
        /\ UNCHANGED searches
     \/ \E id \in BOOLEAN :
          /\ searches' = IF id THEN [searches EXCEPT ![run[p].sid] = Touch(@)] ELSE searches
          /\ \/ Continue(p, [run[p] EXCEPT !.pc = "noDataset"])
             \/ Continue(p, [run[p] EXCEPT !.pc = "catch", !.msg = "Unexpected token < in JSON"])
             \/ Continue(p, [run[p] EXCEPT !.pc = "finalize", !.leads = <<>>])
             \/ \E items \in RawDatasets :
                  Continue(p, [run[p] EXCEPT !.pc = "finalize",
                                             !.leads = normalizeApifyLeads(items)])
  /\ UNCHANGED <<profiles, leads, subscriptions, identity, apifyToken, adm, nRequests>>

\* index.ts:379-383: a run without a dataset is a zero-result success.
NoDataset(p) ==
  /\ run[p].pc = "noDataset"
  /\ searches' = [searches EXCEPT ![run[p].sid] =
                    [Touch(@) EXCEPT !.status = "completed", !.total_results = 0]]
  /\ Respond(p, run[p], SuccessResp("live", 0))
  /\ UNCHANGED <<profiles, leads, subscriptions, identity, apifyToken, adm, nRequests>>

\* The documents batch.set(leadRef, {...lead, search_id, user_id}) adds for
\* one chunk, index.ts:212-220.
RECURSIVE LeadDocs(_, _, _)
LeadDocs(chunk, userId, searchId) ==
  IF chunk = <<>> THEN EmptyBag
  ELSE ([user_id |-> userId, search_id |-> searchId, website |-> Head(chunk).website,
         email |-> Head(chunk).email, pin |-> {}] :> Head(chunk).n)
       (+) LeadDocs(Tail(chunk), userId, searchId)

\* index.ts:222: the chunk that carries the Search and Profile updates.
IsLastChunk(index, chunkCount) == index = chunkCount - 1

\* The write operations of one batch, index.ts:212-243: one batch.set per
\* lead of the chunk and, in the last batch, one for the Search and one for
\* the Profile.
BatchWrites(chunk, isLastChunk) == PayloadLen(chunk) + (IF isLastChunk THEN 2 ELSE 0)

\* index.ts:238: the usage the finalizing batch writes.
FinalLeadsUsed(currentLeadsUsed, n) == currentLeadsUsed + n

\* leads.filter((lead) => lead.website && !lead.email).slice(0, 20)
Candidates(items) ==
  LET Wanted(g) == g.website # NULL /\ g.email = NULL
  IN  Slice(SelectSeq(items, Wanted), 0, CandidateCap)

\* An enrichment pass for every plan.
AfterFinalizeAnyPlan(p, r) ==
  IF ~apifyToken THEN Respond(p, r, SuccessResp("demo", PayloadLen(r.leads)))
  ELSE IF Candidates(r.leads) # <<>>
    THEN Continue(p, [r EXCEPT !.pc = "enrich", !.ci = 1])
  ELSE Respond(p, r, SuccessResp("live", PayloadLen(r.leads)))

\* What follows writeLeadsAndFinalize: the demo response (index.ts:349), or
\* maybeEnrichEmails up to its first await and, with no candidate, the live
\* response (index.ts:390-392, 250-254).
AfterFinalize(p, r) ==
  IF ~apifyToken THEN Respond(p, r, SuccessResp("demo", PayloadLen(r.leads)))
  ELSE IF r.plan \in {"growth", "pro"} /\ Candidates(r.leads) # <<>>
    THEN Continue(p, [r EXCEPT !.pc = "enrich", !.ci = 1])
  ELSE Respond(p, r, SuccessResp("live", PayloadLen(r.leads)))

\* writeLeadsAndFinalize with no lead, index.ts:193-204.
FinalizeEmpty(p) ==
  /\ run[p].pc = "finalize"
  /\ PayloadLen(run[p].leads) = 0
  /\ searches' = [searches EXCEPT ![run[p].sid] = CompletedSearch(@, 0)]
  /\ AfterFinalize(p, run[p])
  /\ UNCHANGED <<profiles, leads, subscriptions, identity, apifyToken, adm, nRequests>>

\* One iteration of the loop of writeLeadsAndFinalize, index.ts:208-246:
\* one atomic batch, which commits or fails as a whole.
CommitChunk(p) ==
  /\ run[p].pc = "finalize"
  /\ PayloadLen(run[p].leads) > 0
  /\ LET r == run[p]
         chunks == chunkArray(r.leads, ChunkSize)
         chunk == chunks[r.index + 1]
         n == PayloadLen(r.leads)
     IN  \/ /\ leads' = leads (+) LeadDocs(chunk, r.uid, r.sid)
            /\ IF IsLastChunk(r.index, Len(chunks))
                 THEN /\ searches' = [searches EXCEPT ![r.sid] = CompletedSearch(@, n)]
                      /\ profiles' = [profiles EXCEPT ![r.uid] =
                            [Touch(@) EXCEPT !.leads_used = FinalLeadsUsed(r.leadsUsed, n)]]
                      /\ AfterFinalize(p, r)
                 ELSE /\ Continue(p, [r EXCEPT !.index = r.index + 1])
                      /\ UNCHANGED <<searches, profiles>>
         \/ /\ Continue(p, [r EXCEPT !.pc = "catch", !.msg = "batch commit failed"])
            /\ UNCHANGED <<leads, searches, profiles>>
  /\ UNCHANGED <<subscriptions, identity, apifyToken, adm, nRequests>>

\* The next candidate of maybeEnrichEmails, or the live response.
NextCandidate(p, r) ==
  IF r.ci < PayloadLen(Candidates(r.leads))
    THEN Continue(p, [r EXCEPT !.pc = "enrich", !.ci = r.ci + 1, !.email = NULL])
    ELSE Respond(p, r, SuccessResp("live", PayloadLen(r.leads)))

\* The documents of .where("search_id", "==", searchId).where("website", "==", website)
LeadsMatching(searchId, website) ==
  {d \in BagToSet(leads) : d.search_id = searchId /\ d.website = website}

\* index.ts:256-268: the page fetch, the pattern match and the lookup of one
\* candidate.  limit(1) without an order takes any matching document.
EnrichFetch(p) ==
  /\ run[p].pc = "enrich"
  /\ LET r == run[p]
         website == ItemAt(Candidates(r.leads), r.ci).website
     IN  \/ /\ NextCandidate(p, r)
            /\ UNCHANGED leads
         \/ \E d \in LeadsMatching(r.sid, website) :
              /\ leads' = (leads (-) (d :> 1)) (+) ([d EXCEPT !.pin = @ \cup {p}] :> 1)
              /\ Continue(p, [r EXCEPT !.pc = "enrichWrite", !.email = PageMail])
  /\ UNCHANGED <<profiles, searches, subscriptions, identity, apifyToken, adm, nRequests>>

\* The document whose reference handler p holds, if it still exists.
PinnedBy(p) == {d \in BagToSet(leads) : p \in d.pin}

\* index.ts:269: ref.set({email}, {merge: true}) on the document looked up;
\* merge creates the document anew when it was deleted since.  A failed
\* write is swallowed (index.ts:270).
EnrichWrite(p) ==
  /\ run[p].pc = "enrichWrite"
  /\ LET r == run[p] IN
     /\ \/ IF PinnedBy(p) = {}
             THEN leads' = leads (+) ([user_id |-> NULL, search_id |-> NULL, website |-> NULL,
                                       email |-> r.email, pin |-> {}] :> 1)
             ELSE \E d \in PinnedBy(p) :
                    leads' = (leads (-) (d :> 1))
                             (+) ([d EXCEPT !.email = r.email, !.pin = @ \ {p}] :> 1)
        \/ IF PinnedBy(p) = {}
             THEN UNCHANGED leads
             ELSE \E d \in PinnedBy(p) :
                    leads' = (leads (-) (d :> 1)) (+) ([d EXCEPT !.pin = @ \ {p}] :> 1)
     /\ NextCandidate(p, r)
  /\ UNCHANGED <<profiles, searches, subscriptions, identity, apifyToken, adm, nRequests>>

\* A message that hides what failed.
ErrorMessageGeneric(error) == "Unexpected error"

\* index.ts:394: error instanceof Error ? error.message : "Unexpected error";
\* every failure of the model throws an Error, named by its message.
ErrorMessage(error) == error

\* The outer handler, index.ts:393-397: the failure is recorded best-effort
\* (a failed write is swallowed) and reported as 500.
Catch(p) ==
  /\ run[p].pc = "catch"
  /\ \/ searches' = [searches EXCEPT ![run[p].sid] =
                         SetStatus(@, "failed", ErrorMessage(run[p].msg))]
     \/ UNCHANGED searches
  /\ Respond(p, run[p], ErrorResp(500, ErrorMessage(run[p].msg)))
  /\ UNCHANGED <<profiles, leads, subscriptions, identity, apifyToken, adm, nRequests>>

\* The steps of a handler after it has received its request.
RunProgress(p) ==
  \/ ReadProfile(p)
  \/ Guard(p)
  \/ ProviderCall(p)
  \/ NoDataset(p)
  \/ FinalizeEmpty(p)
  \/ CommitChunk(p)
  \/ EnrichFetch(p)
  \/ EnrichWrite(p)
  \/ Catch(p)
  \/ Close(p)

RunStep(p) ==
  \/ \E token \in Users \cup {NoToken}, sid \in SearchIds \cup {NoSearchId} :
       Invoke(p, token, sid)
  \/ RunProgress(p)

\* ------------------------------------------- POST /api/superadmin-users
NoAction == "no-action"
NoUserId == "no-user"
ActionInputs ==
  {"list_users", "set_plan", "suspend_user", "restore_user", "delete_user", "purge_user", NoAction}
PlanInputs == {"starter", "growth", "pro", "enterprise"}

\* The handler goes on as a.
AdminContinue(a) == adm' = a

\* The handler, whose locals are a, sends response: the request and the
\* response stay with the handler until the request is closed.
AdminRespond(a, response) ==
  adm' = [IdleAdmin EXCEPT !.pc = "done", !.requester = a.requester, !.action = a.action,
                           !.user_id = a.user_id, !.plan = a.plan, !.resp = response]

\* The request of the handler is over.
AdminClose ==
  /\ adm.pc = "done"
  /\ adm' = IdleAdmin
  /\ UNCHANGED <<profiles, searches, leads, subscriptions, identity, apifyToken, run, nRequests>>

\* requireSuperadmin, index.ts:113-123
IsSuperadmin(token) == ToLowerCase(TokenEmail[token]) = SUPERADMIN_EMAIL

\* The self-targeting check on delete_user alone.
SelfTargetedDeleteOnly(action, userId, requesterUid) ==
  action = "delete_user" /\ userId = requesterUid

\* The self-targeting checks of suspend_user and delete_user, index.ts:482, 517.
SelfTargeted(action, userId, requesterUid) ==
  action \in {"suspend_user", "delete_user"} /\ userId = requesterUid

\* A set_plan that never lowers a limit.
PlanProfileNoLower(doc, plan) ==
  [Touch(doc) EXCEPT !.plan = plan, !.leads_limit = Max(@, PLAN_LIMITS[plan])]

\* A restoration that clears the flag and keeps the time of suspension.
RestoreProfileKeepStamp(doc) == [Touch(doc) EXCEPT !.is_suspended = FALSE]

\* The Profile writes of set_plan, suspend_user and restore_user.
PlanProfile(doc, plan) ==
  [Touch(doc) EXCEPT !.plan = plan, !.leads_limit = PLAN_LIMITS[plan]]
SuspendProfile(doc) ==
  [Touch(doc) EXCEPT !.is_suspended = TRUE, !.suspended_at = "now"]
RestoreProfile(doc) ==
  [Touch(doc) EXCEPT !.is_suspended = FALSE, !.suspended_at = NULL]

\* index.ts:400-522: the guards, the validation of the request and, for
\* set_plan, suspend_user and restore_user, the Profile write.  A request
\* field is in the handler's locals once the handler has read it.
AdminInvoke(token, action, userId, plan) ==
  /\ adm.pc = "idle"
  /\ nRequests < MaxRequests
  /\ nRequests' = nRequests + 1
  /\ LET a0 == [IdleAdmin EXCEPT !.requester = token]
         a1 == [a0 EXCEPT !.action = action]
         a == [a1 EXCEPT !.user_id = userId]
         Reject(b, status, message) ==
           /\ AdminRespond(b, ErrorResp(status, message))
           /\ UNCHANGED profiles
     IN  IF token = NoToken THEN Reject(a0, 401, "Unauthorized")
         ELSE IF ~IsSuperadmin(token) THEN Reject(a0, 403, "Forbidden")
         ELSE IF action = NoAction THEN Reject(a0, 400, "action is required")
         ELSE IF action = "list_users"
           THEN /\ AdminRespond(a1, [SuccessResp(NULL, 0) EXCEPT
                                       !.users = {u \in Users : profiles[u].exists}])
                /\ UNCHANGED profiles
         ELSE IF userId = NoUserId THEN Reject(a1, 400, "Valid user_id is required")
         ELSE IF action = "set_plan"
           THEN IF plan \notin PlanType
                  THEN Reject([a EXCEPT !.plan = plan], 400, "Valid plan is required")
                  ELSE /\ profiles' = [profiles EXCEPT ![userId] = PlanProfile(@, plan)]
                       /\ AdminContinue([a EXCEPT !.pc = "subscription", !.plan = plan])
         ELSE IF action = "suspend_user"
           THEN IF SelfTargeted(action, userId, token)
                  THEN Reject(a, 400, "You cannot suspend your own account")
                  ELSE /\ profiles' = [profiles EXCEPT ![userId] = SuspendProfile(@)]
                       /\ AdminContinue([a EXCEPT !.pc = "identity"])
         ELSE IF action = "restore_user"
           THEN /\ profiles' = [profiles EXCEPT ![userId] = RestoreProfile(@)]
                /\ AdminContinue([a EXCEPT !.pc = "identity"])
         ELSE IF action = "delete_user"
           THEN IF SelfTargeted(action, userId, token)
                  THEN Reject(a, 400, "You cannot delete your own account")
                  ELSE /\ AdminContinue([a EXCEPT !.pc = "deleteLeads"])
                       /\ UNCHANGED profiles
         ELSE Reject(a1, 400, "Unknown action")
  /\ UNCHANGED <<searches, leads, subscriptions, identity, apifyToken, run>>

\* index.ts:466-478: the Subscription upsert of set_plan.
SetSubscription ==
  /\ adm.pc = "subscription"
  /\ subscriptions' = [subscriptions EXCEPT ![adm.user_id] =
                         [exists |-> TRUE, user_id |-> adm.user_id, plan |-> adm.plan,
                          status |-> "active"]]
  /\ AdminRespond(adm, SuccessResp(NULL, 0))
  /\ UNCHANGED <<profiles, searches, leads, identity, apifyToken, run, nRequests>>

\* An identity call whose failure puts the Profile back as it was before the
\* suspension or the restoration.
UpdateIdentityRollback ==
  /\ adm.pc = "identity"
  /\ \/ /\ identity[adm.user_id].exists
        /\ identity' = [identity EXCEPT ![adm.user_id].disabled = (adm.action = "suspend_user")]
        /\ AdminRespond(adm, SuccessResp(NULL, 0))
        /\ UNCHANGED profiles
     \/ /\ AdminRespond(adm, ErrorResp(500, "identity service error"))
        /\ profiles' = [profiles EXCEPT ![adm.user_id].is_suspended = ~@,
                                        ![adm.user_id].suspended_at = NULL]
        /\ UNCHANGED identity
  /\ UNCHANGED <<searches, leads, subscriptions, apifyToken, run, nRequests>>

\* index.ts:496-498, 511-513: adminAuth.updateUser, which fails for an
\* identity that does not exist or when the service fails; the Profile
\* write before it is not undone (index.ts:533-536).
UpdateIdentity ==
  /\ adm.pc = "identity"
  /\ \/ /\ identity[adm.user_id].exists
        /\ identity' = [identity EXCEPT ![adm.user_id].disabled = (adm.action = "suspend_user")]
        /\ AdminRespond(adm, SuccessResp(NULL, 0))
     \/ /\ AdminRespond(adm, ErrorResp(500, "identity service error"))
        /\ UNCHANGED identity
  /\ UNCHANGED <<profiles, searches, leads, subscriptions, apifyToken, run, nRequests>>

RECURSIVE BagSize(_, _)
\* The number of documents of bag B among the elements S.
BagSize(S, B) ==
  IF S = {} THEN 0
  ELSE LET x == CHOOSE x \in S : TRUE IN B[x] + BagSize(S \ {x}, B)

RECURSIVE SubBagsOfSize(_, _, _)
\* The sub-bags of B, over the elements S, that hold exactly k documents.
SubBagsOfSize(S, B, k) ==
  IF S = {} THEN (IF k = 0 THEN {EmptyBag} ELSE {})
  ELSE LET x == CHOOSE x \in S : TRUE
           rest == S \ {x}
       IN  UNION { { (IF c > 0 THEN x :> c ELSE EmptyBag) (+) sub :
                       sub \in SubBagsOfSize(rest, B, k - c) } :
                   c \in Max(0, k - BagSize(rest, B)) .. Min(B[x], k) }

\* A query without its limit: every matching document in one page.
LeadPagesUnlimited(userId, pageSize) ==
  LET S == {d \in BagToSet(leads) : d.user_id = userId}
  IN  {[d \in S |-> leads[d]]}

\* The pages .where("user_id", "==", userId).limit(pageSize).get() may
\* return: all matching documents, or any pageSize of them (no order given).
LeadPages(userId, pageSize) ==
  LET S == {d \in BagToSet(leads) : d.user_id = userId}
      B == [d \in S |-> leads[d]]
  IN  IF BagSize(S, B) <= pageSize THEN {B} ELSE SubBagsOfSize(S, B, pageSize)

SearchPages(userId, pageSize) ==
  LET S == {s \in SearchIds : searches[s].exists /\ searches[s].user_id = userId}
  IN  IF Cardinality(S) <= pageSize THEN {S}
      ELSE {page \in SUBSET S : Cardinality(page) = pageSize}

\* A loop that also stops after a full page.
IsLastPageInclusive(size, pageSize) == size <= pageSize

\* index.ts:285: a page shorter than the limit ends the loop (an empty page
\* ends it at index.ts:279).
IsLastPage(size, pageSize) == size < pageSize

\* One iteration of deleteByUserId("leads", userId), index.ts:277-286: the
\* query and the batch that deletes its page.  The two are one step: what
\* another handler does to a document of the page between them is undone
\* by the delete.
DeleteLeadsPage ==
  /\ adm.pc = "deleteLeads"
  /\ \E page \in LeadPages(adm.user_id, DeletePageSize) :
       /\ leads' = leads (-) page
       /\ AdminContinue(IF IsLastPage(BagCardinality(page), DeletePageSize)
                          THEN [adm EXCEPT !.pc = "deleteSearches"] ELSE adm)
  /\ UNCHANGED <<profiles, searches, subscriptions, identity, apifyToken, run, nRequests>>

\* One iteration of deleteByUserId("searches", userId).
DeleteSearchesPage ==
  /\ adm.pc = "deleteSearches"
  /\ \E page \in SearchPages(adm.user_id, DeletePageSize) :
       /\ searches' = [s \in SearchIds |-> IF s \in page THEN AbsentSearch ELSE searches[s]]
       /\ AdminContinue(IF IsLastPage(Cardinality(page), DeletePageSize)
                          THEN [adm EXCEPT !.pc = "deleteSubscription"] ELSE adm)
  /\ UNCHANGED <<profiles, leads, subscriptions, identity, apifyToken, run, nRequests>>

\* index.ts:524: the delete, or its failure, which .catch(() => undefined)
\* swallows.
DeleteSubscription ==
  /\ adm.pc = "deleteSubscription"
  /\ \/ subscriptions' = [subscriptions EXCEPT ![adm.user_id] = AbsentSubscription]
     \/ UNCHANGED subscriptions
  /\ AdminContinue([adm EXCEPT !.pc = "deleteProfile"])
  /\ UNCHANGED <<profiles, searches, leads, identity, apifyToken, run, nRequests>>

\* index.ts:525: the delete, or its failure, which .catch(() => undefined)
\* swallows.
DeleteProfile ==
  /\ adm.pc = "deleteProfile"
  /\ \/ profiles' = [profiles EXCEPT ![adm.user_id] = AbsentProfile]
     \/ UNCHANGED profiles
  /\ AdminContinue([adm EXCEPT !.pc = "deleteIdentity"])
  /\ UNCHANGED <<searches, leads, subscriptions, identity, apifyToken, run, nRequests>>

\* index.ts:526-529: adminAuth.deleteUser, which fails for an identity that
\* does not exist or when the service fails.
DeleteIdentity ==
  /\ adm.pc = "deleteIdentity"
  /\ \/ /\ identity[adm.user_id].exists
        /\ identity' = [identity EXCEPT ![adm.user_id] = [exists |-> FALSE, disabled |-> FALSE]]
        /\ AdminRespond(adm, SuccessResp(NULL, 0))
     \/ /\ AdminRespond(adm, ErrorResp(500, "identity service error"))
        /\ UNCHANGED identity
  /\ UNCHANGED <<profiles, searches, leads, subscriptions, apifyToken, run, nRequests>>

\* The steps of the handler after it has received its request.
AdminProgress ==
  \/ SetSubscription
  \/ UpdateIdentity
  \/ DeleteLeadsPage
  \/ DeleteSearchesPage
  \/ DeleteSubscription
  \/ DeleteProfile
  \/ DeleteIdentity
  \/ AdminClose

AdminStep ==
  \/ \E token \in Users \cup {NoToken}, action \in ActionInputs,
        userId \in Users \cup {NoUserId}, plan \in PlanInputs :
       AdminInvoke(token, action, userId, plan)
  \/ AdminProgress

Next ==
  \/ \E p \in Procs : RunStep(p)
  \/ AdminStep

\* Both endpoints, handlers interleaving at every await.
Spec == Init /\ [][Next]_vars

\* Orchestrator runs alone: no superadmin request.
NextRuns == \E p \in Procs : RunStep(p)
SpecRuns == Init /\ [][NextRuns]_vars

\* One request at a time: a request is received only when no handler is in
\* flight, so no handler writes while another one runs.
Quiet == adm.pc = "idle" /\ \A p \in Procs : run[p].pc = "idle"
InvokeSerial(p, token, sid) == Quiet /\ Invoke(p, token, sid)
AdminInvokeSerial(token, action, userId, plan) ==
  Quiet /\ AdminInvoke(token, action, userId, plan)
NextSerial ==
  \/ \E p \in Procs, token \in Users \cup {NoToken}, sid \in SearchIds \cup {NoSearchId} :
       InvokeSerial(p, token, sid)
  \/ \E p \in Procs : RunProgress(p)
  \/ \E token \in Users \cup {NoToken}, action \in ActionInputs,
        userId \in Users \cup {NoUserId}, plan \in PlanInputs :
       AdminInvokeSerial(token, action, userId, plan)
  \/ AdminProgress
SpecSerial == Init /\ [][NextSerial]_vars

\* One request at a time, and the superadmin handler goes on: each of its
\* awaits resolves (reads and deletion batches succeed, a failing service
\* call rejects), and the event loop then resumes the handler.
SpecSerialFair == SpecSerial /\ WF_vars(AdminProgress)

\* ----------------------------------------------------------- properties
\* Handler p takes a step from the place pc of its code.
StepsAt(p, pc) == run[p].pc = pc /\ run'[p] # run[p]

\* profile.leads_used ?? 0
UsageOf(profile) == IF profile.leads_used = NoNum THEN 0 ELSE profile.leads_used

\* The lead documents stored for search sid of account uid.
LeadCount(store, uid, sid) ==
  LET S == {d \in BagToSet(store) : d.user_id = uid /\ d.search_id = sid}
  IN  BagSize(S, store)

\* The sum of total_results over the completed searches of account uid.
RECURSIVE TotalOver(_, _)
TotalOver(S, coll) ==
  IF S = {} THEN 0
  ELSE LET s == CHOOSE s \in S : TRUE IN coll[s].total_results + TotalOver(S \ {s}, coll)
CompletedTotal(coll, uid) ==
  TotalOver({s \in SearchIds : coll[s].exists /\ coll[s].user_id = uid
                               /\ coll[s].status = "completed"}, coll)

\* C1: every commit of writeLeadsAndFinalize with N >= 1 leads is one of two
\* outcomes.  The finalizing commit leaves all N leads stored, the Search
\* completed with total_results = N and leads_used exactly N above its value
\* in the store just before the commit; a failed commit, and a commit of an
\* earlier chunk, leave the Search and the Profile as they were.
C1_FinalizeAllOrNothing ==
  [][\A p \in Procs :
       (StepsAt(p, "finalize") /\ PayloadLen(run[p].leads) > 0) =>
         LET r == run[p]
             n == PayloadLen(r.leads)
         IN  IF run'[p].pc \in {"finalize", "catch"}
               THEN searches' = searches /\ profiles' = profiles
               ELSE /\ LeadCount(leads', r.uid, r.sid) >= n
                    /\ searches'[r.sid].status = "completed"
                    /\ searches'[r.sid].total_results = n
                    /\ profiles'[r.uid].leads_used = UsageOf(profiles[r.uid]) + n]_vars

\* C2: no step of any interleaving of Orchestrator runs makes a Profile's
\* leads_used smaller.
C2_LeadsUsedMonotone ==
  [][\A u \in Users : UsageOf(profiles'[u]) >= UsageOf(profiles[u])]_vars

\* C3: no step takes a completed or failed Search to another status or
\* changes its total_results or error_message.
C3_TerminalStatusFinal ==
  [][\A s \in SearchIds :
       searches[s].status \in {"completed", "failed"} =>
         /\ searches'[s].status = searches[s].status
         /\ searches'[s].total_results = searches[s].total_results
         /\ searches'[s].error_message = searches[s].error_message]_vars

\* C4: a handler that read is_suspended = true takes one more step, which
\* writes status failed and "Account suspended" to its Search, answers 403,
\* writes no Lead and no Profile; it is never past the guard.
C4_SuspendedRejected ==
  [][\A p \in Procs :
       /\ run'[p].suspended => run'[p].pc = "guard"
       /\ (StepsAt(p, "guard") /\ run[p].suspended) =>
            /\ searches'[run[p].sid].status = "failed"
            /\ searches'[run[p].sid].error_message = "Account suspended"
            /\ \A s \in SearchIds \ {run[p].sid} : searches'[s] = searches[s]
            /\ run'[p].pc = "done"
            /\ run'[p].resp = ErrorResp(403, "Account suspended")
            /\ leads' = leads
            /\ profiles' = profiles]_vars

\* A suspended account that is also over quota was answered 403.
C4_Witness ==
  \E p \in Procs :
    /\ run[p].pc = "done"
    /\ run[p].resp.code = 403
    /\ profiles[run[p].uid].is_suspended
    /\ profiles[run[p].uid].leads_used >= profiles[run[p].uid].leads_limit
    /\ searches[run[p].sid].status = "failed"
    /\ searches[run[p].sid].error_message = "Account suspended"

\* C5: a handler that read a Profile that is not suspended and has
\* leads_used >= leads_limit takes one more step, which writes status failed
\* and "Leads quota exceeded" to its Search, answers 429, writes no Lead and
\* no Profile (so never status running).
C5_QuotaRejected ==
  [][\A p \in Procs :
       (StepsAt(p, "guard") /\ ~run[p].suspended /\ run[p].leadsUsed >= run[p].leadsLimit) =>
            /\ searches'[run[p].sid].status = "failed"
            /\ searches'[run[p].sid].error_message = "Leads quota exceeded"
            /\ \A s \in SearchIds \ {run[p].sid} : searches'[s] = searches[s]
            /\ run'[p].pc = "done"
            /\ run'[p].resp = ErrorResp(429, "Leads quota exceeded")
            /\ leads' = leads
            /\ profiles' = profiles]_vars

\* An account with leads_used = leads_limit was answered 429.
C5_Witness ==
  \E p \in Procs :
    /\ run[p].pc = "done"
    /\ run[p].resp.code = 429
    /\ ~profiles[run[p].uid].is_suspended
    /\ profiles[run[p].uid].leads_used = profiles[run[p].uid].leads_limit
    /\ searches[run[p].sid].status = "failed"
    /\ searches[run[p].sid].error_message = "Leads quota exceeded"

\* C6: leads_used and the completed Searches move together: in every step
\* the change of an account's leads_used equals the change of the sum of
\* total_results over its completed Searches, so usage is never counted
\* for a Search that is not completed, and a completed Search's leads are
\* never missing from leads_used.
C6_UsageMatchesCompleted ==
  [][\A u \in Users :
       UsageOf(profiles'[u]) - UsageOf(profiles[u])
         = CompletedTotal(searches', u) - CompletedTotal(searches, u)]_vars

\* C7: a request by an authenticated caller for a search id that has no
\* Search, or a Search of another account, is answered 404 "Search not
\* found" at once and writes nothing.
C7_NotOwnedAsMissing ==
  [][\A p \in Procs :
       (/\ StepsAt(p, "idle")
        /\ run'[p].uid \in Users
        /\ run'[p].sid \in SearchIds
        /\ (~searches[run'[p].sid].exists \/ searches[run'[p].sid].user_id # run'[p].uid)) =>
            /\ run'[p].pc = "done"
            /\ run'[p].resp = ErrorResp(404, "Search not found")
            /\ searches' = searches /\ profiles' = profiles /\ leads' = leads]_vars

\* One caller was answered for a Search of another account, one for a
\* missing id, and the two responses are equal.
C7_Witness ==
  \E p \in Procs, q \in Procs :
    /\ run[p].pc = "done" /\ run[q].pc = "done"
    /\ run[p].uid \in Users /\ run[q].uid \in Users
    /\ run[p].sid \in SearchIds /\ run[q].sid \in SearchIds
    /\ searches[run[p].sid].exists /\ searches[run[p].sid].user_id # run[p].uid
    /\ ~searches[run[q].sid].exists
    /\ run[p].resp = run[q].resp
    /\ run[p].resp.code = 404

\* C8: the enrichment write never changes a non-null email: when the
\* document a handler looked up has an email, the handler's write leaves
\* that document with the email it had.
C8_EnrichKeepsEmail ==
  [][\A p \in Procs :
       StepsAt(p, "enrichWrite") =>
         \A d \in PinnedBy(p) :
           d.email # NULL =>
             CopiesIn([d EXCEPT !.pin = @ \ {p}], leads')
               > CopiesIn([d EXCEPT !.pin = @ \ {p}], leads)]_vars

NoLeadsOf(uid) == \A d \in BagToSet(leads) : d.user_id # uid
NoSearchesOf(uid) == \A s \in SearchIds : ~(searches[s].exists /\ searches[s].user_id = uid)

\* delete_user on an account other than the requester's is past its
\* validation.
Deleting == adm.action = "delete_user" /\ adm.pc # "idle" /\ adm.user_id \in Users
                /\ adm.user_id # adm.requester

\* C9: while delete_user on T runs with no other handler in flight, the
\* Profile of T is absent only when no Lead and no Search of T is left, and
\* when it has answered success the Leads, Searches, Subscription and
\* Profile of T are all absent.
C9_DeleteOrder ==
  Deleting =>
    /\ ~profiles[adm.user_id].exists => (NoLeadsOf(adm.user_id) /\ NoSearchesOf(adm.user_id))
    /\ (adm.pc = "done" /\ adm.resp.code = 200) =>
         /\ NoLeadsOf(adm.user_id) /\ NoSearchesOf(adm.user_id)
         /\ ~subscriptions[adm.user_id].exists
         /\ ~profiles[adm.user_id].exists

\* C9 as the handler keeps it: the Profile of T is absent only when no Lead
\* and no Search of T is left; from the end of the two delete loops on, and
\* when the operation has answered success, no Lead and no Search of T is
\* left, and at success the identity of T is deleted.  The deletes of the
\* Subscription and of the Profile may fail unnoticed.
C9_DeleteOrderBestEffort ==
  Deleting =>
    /\ ~profiles[adm.user_id].exists => (NoLeadsOf(adm.user_id) /\ NoSearchesOf(adm.user_id))
    /\ adm.pc \in {"deleteSubscription", "deleteProfile", "deleteIdentity"}
         => (NoLeadsOf(adm.user_id) /\ NoSearchesOf(adm.user_id))
    /\ (adm.pc = "done" /\ adm.resp.code = 200) =>
         /\ NoLeadsOf(adm.user_id) /\ NoSearchesOf(adm.user_id)
         /\ ~identity[adm.user_id].exists

\* delete_user has deleted a first full page of an account's leads, and
\* leads of the account are left for the next page.
C9_Witness ==
  /\ adm.action = "delete_user" /\ adm.pc = "deleteLeads"
  /\ ~NoLeadsOf(adm.user_id)
  /\ \E s \in SearchIds :
       /\ searches[s].exists /\ searches[s].user_id = adm.user_id
       /\ searches[s].status = "completed"
       /\ searches[s].total_results > DeletePageSize
       /\ LeadCount(leads, adm.user_id, s) < searches[s].total_results

\* C10: suspend_user and delete_user with user_id equal to the requester's
\* uid are answered 400 at once and change no Profile, Subscription, Lead,
\* Search or identity; no such request is ever past its validation.
C10_SelfTargetRejected ==
  [][LET self == adm'.action \in {"suspend_user", "delete_user"}
                 /\ adm'.user_id = adm'.requester
     IN  /\ self => adm'.pc \in {"idle", "done"}
         /\ (adm.pc = "idle" /\ adm' # adm /\ self) =>
              /\ adm'.pc = "done"
              /\ adm'.resp.code = 400
              /\ profiles' = profiles /\ subscriptions' = subscriptions
              /\ leads' = leads /\ searches' = searches /\ identity' = identity]_vars

\* The superadmin's suspend_user on its own account was answered 400.
C10_Witness ==
  /\ adm.pc = "done"
  /\ adm.action = "suspend_user"
  /\ adm.user_id = adm.requester
  /\ adm.resp = ErrorResp(400, "You cannot suspend your own account")
  /\ ~profiles[adm.user_id].is_suspended

\* ------------------------------------------------ failure paths and frames
\* Handler p, past the ownership check, sends an error response.
FailsPastOwnership(p) ==
  /\ run[p].pc \in {"profile", "guard", "provider", "noDataset", "finalize",
                    "enrich", "enrichWrite", "catch"}
  /\ run'[p].pc = "done"
  /\ run'[p].resp.code >= 400

\* C11: every error response of a handler that found its Search existing
\* and owned by the caller leaves that Search with status failed and the
\* error_message sent to the caller, unless the failure-recording write of
\* the outer handler failed.
C11_FailureRecorded ==
  [][\A p \in Procs :
       FailsPastOwnership(p) =>
         \/ /\ searches'[run[p].sid].status = "failed"
            /\ searches'[run[p].sid].error_message = run'[p].resp.error
         \/ run[p].pc = "catch" /\ searches' = searches]_vars

\* C12: a handler of POST /api/run-apify-search whose caller is the
\* superadmin moves no Search to running or completed, writes no Lead and no
\* Profile, and its response is a rejection.
C12_SuperadminCannotRun ==
  [][\A p \in Procs :
       /\ (run'[p].uid \in Users /\ IsSuperadmin(run'[p].uid) /\ run'[p].pc = "done")
            => run'[p].resp.code >= 400
       /\ (run[p].uid \in Users /\ IsSuperadmin(run[p].uid) /\ run[p].sid \in SearchIds
           /\ run'[p] # run[p]) =>
            /\ searches'[run[p].sid].status \in {"running", "completed"}
                 => searches'[run[p].sid] = searches[run[p].sid]
            /\ leads' = leads
            /\ profiles' = profiles]_vars

\* The chunk handler p is about to commit, and whether it is the last one.
ChunkOf(p) == chunkArray(run[p].leads, ChunkSize)[run[p].index + 1]
OnLastChunk(p) == IsLastChunk(run[p].index, Len(chunkArray(run[p].leads, ChunkSize)))

C14_LeadsReferenceOwnedSearch ==
  \A d \in BagToSet(leads) :
    /\ d.search_id \in SearchIds
    /\ searches[d.search_id].exists
    /\ searches[d.search_id].user_id = d.user_id

\* The ceiling of each plan.
Ceiling(plan) == CASE plan = "starter" -> 2000 [] plan = "growth" -> 5000 [] plan = "pro" -> 15000

C16_ZeroLeadFinalize ==
  [][\A p \in Procs :
       ((StepsAt(p, "finalize") /\ PayloadLen(run[p].leads) = 0) \/ StepsAt(p, "noDataset")) =>
         /\ profiles' = profiles
         /\ leads' = leads
         /\ searches'[run[p].sid].status = "completed"
         /\ searches'[run[p].sid].total_results = 0
         /\ \A s \in SearchIds \ {run[p].sid} : searches'[s] = searches[s]
         /\ subscriptions' = subscriptions
         /\ run'[p].pc = "done" /\ run'[p].resp.code = 200 /\ run'[p].resp.leads = 0]_vars

\* A run of an account with leads_used 5000 has ended with zero leads.
C16_Witness ==
  \E p \in Procs :
    /\ run[p].pc = "done" /\ run[p].resp.code = 200 /\ run[p].resp.leads = 0
    /\ run[p].sid \in SearchIds
    /\ searches[run[p].sid].status = "completed"
    /\ searches[run[p].sid].total_results = 0
    /\ profiles[run[p].uid].leads_used = 5000

\* C17: in demo mode the leads a run generates, stores and adds to
\* leads_used number min(max_results, 10), for every max_results >= 0.
C17_MockCount ==
  [][\A p \in Procs :
       (~apifyToken /\ StepsAt(p, "finalize")) =>
         LET r == run[p]
             expected == Min(r.max_results, MockCap)
         IN  /\ PayloadLen(r.leads) = expected
             /\ run'[p].pc = "done" =>
                  /\ run'[p].resp.leads = expected
                  /\ searches'[r.sid].total_results = expected
                  /\ LeadCount(leads', r.uid, r.sid) - LeadCount(leads, r.uid, r.sid) = expected
                  /\ UsageOf(profiles'[r.uid]) - UsageOf(profiles[r.uid]) = expected]_vars

\* Handler p, whose Search is running by its own write, fails in this step.
FailsWhileRunning(p) ==
  run[p].pc \in {"provider", "finalize"} /\ run'[p].pc = "catch"

\* A step of handler p that writes a Profile is its finalizing commit, and
\* a handler past that commit does not fail.
WritesUsageOnlyAtSuccess(p) ==
  /\ (run'[p] # run[p] /\ profiles' # profiles) =>
       /\ run[p].pc = "finalize"
       /\ run'[p].pc \in {"enrich", "done"}
       /\ run'[p].resp.code \in {0, 200}
  /\ run[p].pc \in {"enrich", "enrichWrite"} =>
       /\ run'[p].pc # "catch"
       /\ run'[p].resp.code \in {0, 200}

\* C18: a run that fails after it wrote status running ends with its Search
\* in status failed carrying the failure message, the caller answered 500
\* with that message, and no step of the failure touches a Profile or a
\* Lead (leads of committed chunks stay stored); the run writes leads_used
\* only in its finalizing commit, after which it does not fail.
C18_FailureAfterRunning ==
  [][\A p \in Procs :
       /\ WritesUsageOnlyAtSuccess(p)
       /\ FailsWhileRunning(p) =>
            /\ profiles' = profiles /\ leads' = leads
            /\ run'[p].msg # NULL
       /\ StepsAt(p, "catch") =>
            /\ searches'[run[p].sid].status = "failed"
            /\ searches'[run[p].sid].error_message = run[p].msg
            /\ run'[p].pc = "done"
            /\ run'[p].resp = ErrorResp(500, run[p].msg)
            /\ profiles' = profiles /\ leads' = leads]_vars

\* C18 as the code keeps it: as above, except that the write of status
\* failed is best-effort: when it fails the Search is left as it was.
C18_FailureAfterRunningBestEffort ==
  [][\A p \in Procs :
       /\ WritesUsageOnlyAtSuccess(p)
       /\ FailsWhileRunning(p) =>
            /\ profiles' = profiles /\ leads' = leads
            /\ run'[p].msg # NULL
       /\ StepsAt(p, "catch") =>
            /\ \/ /\ searches'[run[p].sid].status = "failed"
                  /\ searches'[run[p].sid].error_message = run[p].msg
               \/ searches' = searches
            /\ \A s \in SearchIds \ {run[p].sid} : searches'[s] = searches[s]
            /\ run'[p].pc = "done"
            /\ run'[p].resp = ErrorResp(500, run[p].msg)
            /\ profiles' = profiles /\ leads' = leads]_vars

\* A run of 401 leads failed at its second batch: it was answered 500, its
\* Search is failed with the message, the 400 leads of the first batch are
\* stored and leads_used is as before the run.
C18_Witness ==
  \E p \in Procs :
    /\ run[p].pc = "done" /\ run[p].resp.code = 500
    /\ run[p].sid \in SearchIds
    /\ searches[run[p].sid].status = "failed"
    /\ searches[run[p].sid].error_message = run[p].resp.error
    /\ LeadCount(leads, run[p].uid, run[p].sid) = ChunkSize
    /\ profiles[run[p].uid].leads_used = 0

\* Handler p is in its enrichment pass.
Enriching(r) == r.pc \in {"enrich", "enrichWrite"}

\* After a step of the pass on candidate ci: the next candidate, or, after
\* the last one, the success response of the run.
PassGoesOn(p) ==
  IF run[p].ci < PayloadLen(Candidates(run[p].leads))
    THEN run'[p].pc = "enrich" /\ run'[p].ci = run[p].ci + 1
    ELSE run'[p].pc = "done"
         /\ run'[p].resp = SuccessResp("live", PayloadLen(run[p].leads))

\* C19: a handler enters its enrichment pass only in the step that commits
\* its finalization (its Search is completed by that step), only in live
\* mode and only for plan growth or pro; no step of the pass writes a Search
\* or a Profile; whatever happens to a candidate, the pass goes on with the
\* next one and ends with the success response of the run.
C19_EnrichmentAfterFinalize ==
  [][\A p \in Procs :
       /\ (~Enriching(run[p]) /\ Enriching(run'[p])) =>
            /\ run[p].pc = "finalize"
            /\ run'[p].pc = "enrich" /\ run'[p].ci = 1
            /\ searches'[run[p].sid].status = "completed"
            /\ searches'[run[p].sid].total_results = PayloadLen(run[p].leads)
       /\ Enriching(run'[p]) =>
            /\ run'[p].plan \in {"growth", "pro"}
            /\ apifyToken
            /\ run'[p].ci \in 1..PayloadLen(Candidates(run'[p].leads))
       /\ (Enriching(run[p]) /\ run'[p] # run[p]) =>
            /\ searches' = searches
            /\ profiles' = profiles
            /\ run'[p].leads = run[p].leads \/ run'[p].pc = "done"
            /\ IF run[p].pc = "enrich"
                 THEN (run'[p].pc = "enrichWrite" /\ run'[p].ci = run[p].ci) \/ PassGoesOn(p)
                 ELSE PassGoesOn(p)]_vars

\* A live run of two leads, both candidates, has answered success: the pass
\* wrote the page's address to one lead of its search and the other lead is
\* without email (its fetch, match, lookup or write failed, or both writes
\* went to the same document).
C19_Witness ==
  \E p \in Procs :
    /\ run[p].pc = "done" /\ run[p].resp = SuccessResp("live", 2)
    /\ \E d \in BagToSet(leads) : d.search_id = run[p].sid /\ d.email = PageMail
    /\ \E d \in BagToSet(leads) : d.search_id = run[p].sid /\ d.email = NULL
    /\ \A d \in BagToSet(leads) : d.search_id = run[p].sid => d.email \in {PageMail, NULL}

\* The documents of account uid in the leads and in the searches collection.
LeadsOwned(store, uid) == BagSize({d \in BagToSet(store) : d.user_id = uid}, store)
SearchesOwned(coll, uid) ==
  Cardinality({s \in SearchIds : coll[s].exists /\ coll[s].user_id = uid})

\* One iteration of a delete loop that removes `before - after` documents
\* and goes on (`stays`) or ends: a batch holds at most 400 deletes, the loop
\* goes on only after a full page, which leaves fewer documents than before,
\* and ends only after an empty page or a page shorter than 400, with no
\* document of the account left.
LoopIteration(before, after, stays) ==
  /\ before - after >= 0 /\ before - after <= 400
  /\ stays => (before - after = 400 /\ after < before)
  /\ ~stays => (before - after < 400 /\ after = 0)

\* C20: with one request at a time (nothing inserts while delete_user runs),
\* every iteration of deleteByUserId on the leads and on the searches of the
\* target deletes at most 400 documents, goes on only after a full page and
\* ends only after an empty or a shorter page, with no document of the
\* target left in the collection; and both loops come to their end.
C20_DeleteLoop ==
  /\ [][LET inLeads == adm.pc = "deleteLeads" /\ (adm' # adm \/ leads' # leads)
            inSearches == adm.pc = "deleteSearches" /\ (adm' # adm \/ searches' # searches)
        IN  /\ inLeads =>
                  LoopIteration(LeadsOwned(leads, adm.user_id),
                                LeadsOwned(leads', adm.user_id),
                                adm'.pc = "deleteLeads")
            /\ inSearches =>
                  LoopIteration(SearchesOwned(searches, adm.user_id),
                                SearchesOwned(searches', adm.user_id),
                                adm'.pc = "deleteSearches")]_vars
  /\ (adm.pc \in {"deleteLeads", "deleteSearches"}) ~> (adm.pc = "deleteSubscription")

\* delete_user has deleted one full page, the 400 leads of the target, and
\* is still in its loop on leads: the empty page that ends it is to come.
C20_Witness ==
  /\ adm.action = "delete_user" /\ adm.pc = "deleteLeads"
  /\ NoLeadsOf(adm.user_id)
  /\ \E s \in SearchIds :
       /\ searches[s].exists /\ searches[s].user_id = adm.user_id
       /\ searches[s].status = "completed"
       /\ searches[s].total_results = DeletePageSize

\* The Profile fields that suspend_user (index.ts:487-494) and restore_user
\* (index.ts:502-509) leave behind.
SuspensionApplied(profile, action) ==
  /\ profile.exists
  /\ profile.is_suspended = (action = "suspend_user")
  /\ (profile.suspended_at # NULL) = (action = "suspend_user")

\* C21: suspend_user and restore_user write the Profile before they call the
\* identity service and never undo it: when the call is answered, the
\* Profile of the target holds the values the operation applied; a failed
\* call is answered 500 and changes neither the Profile nor the identity; a
\* successful one sets the identity's disabled flag to the same value.
C21_ProfileFirstNoRollback ==
  [][(adm.pc = "identity" /\ adm'.pc = "done") =>
       /\ adm.action \in {"suspend_user", "restore_user"}
       /\ SuspensionApplied(profiles[adm.user_id], adm.action)
       /\ SuspensionApplied(profiles'[adm.user_id], adm.action)
       /\ adm'.resp.code \in {200, 500}
       /\ adm'.resp.code = 500 => (profiles' = profiles /\ identity' = identity)
       /\ adm'.resp.code = 200 =>
            identity'[adm.user_id].disabled = (adm.action = "suspend_user")]_vars

\* suspend_user was answered 500 by a failed identity call: the Profile of
\* the target is suspended and its identity exists and is not disabled.
C21_Witness ==
  /\ adm.pc = "done" /\ adm.action = "suspend_user" /\ adm.resp.code = 500
  /\ profiles[adm.user_id].is_suspended /\ profiles[adm.user_id].suspended_at # NULL
  /\ identity[adm.user_id].exists /\ ~identity[adm.user_id].disabled

\* The caller and the requested Search of the request handler p works on in
\* a step (a step from idle receives the request).
CallerOf(p) == IF run[p].pc = "idle" THEN run'[p].uid ELSE run[p].uid
RequestedOf(p) == IF run[p].pc = "idle" THEN run'[p].sid ELSE run[p].sid

\* The lead documents a step adds, removes or rewrites.
LeadsTouched ==
  {d \in BagToSet(leads) \cup BagToSet(leads') : CopiesIn(d, leads') # CopiesIn(d, leads)}

\* A step leaves the Profiles, Searches and Leads of every account other
\* than uid, and every Subscription and identity, as they were.
OthersUnchanged(uid) ==
  /\ \A u \in Users \ {uid} : profiles'[u] = profiles[u]
  /\ \A s \in SearchIds :
       (searches[s].exists /\ searches[s].user_id \in Users \ {uid})
         => searches'[s] = searches[s]
  /\ \A d \in BagToSet(leads) \cup BagToSet(leads') :
       d.user_id \in Users \ {uid} => CopiesIn(d, leads') = CopiesIn(d, leads)
  /\ subscriptions' = subscriptions /\ identity' = identity

\* C22: a step of a run-apify-search handler writes only the Profile of its
\* caller, the requested Search, which exists and belongs to the caller, and
\* Leads whose user_id is the caller and whose search_id is the requested
\* Search; what belongs to another account is unchanged.
C22_RunTouchesOwnData ==
  [][\A p \in Procs :
       run'[p] # run[p] =>
         /\ OthersUnchanged(CallerOf(p))
         /\ \A s \in SearchIds :
              searches'[s] # searches[s] =>
                /\ s = RequestedOf(p)
                /\ searches[s].exists /\ searches[s].user_id = CallerOf(p)
         /\ \A d \in LeadsTouched :
              d.user_id = CallerOf(p) /\ d.search_id = RequestedOf(p)]_vars

\* suspended_at is set exactly when is_suspended is true.
StampMatchesFlag(profile) == (profile.suspended_at # NULL) = profile.is_suspended

\* C23: every Profile starts not suspended with no suspended_at and, after
\* every step, has suspended_at set exactly when is_suspended is true.  The
\* write of suspend_user leaves the target suspended whether or not it was
\* (idempotent), the write of restore_user leaves it with is_suspended false
\* and suspended_at null, the initial values, whether or not it was
\* suspended; neither write, nor the identity call that completes the
\* operation, changes plan, leads_limit or leads_used.
C23_SuspendRestore ==
  [][/\ \A u \in Users : StampMatchesFlag(profiles'[u])
     /\ (adm.pc = "idle" /\ adm'.pc = "identity") =>
          LET before == profiles[adm'.user_id]
              after == profiles'[adm'.user_id]
          IN  /\ adm'.action \in {"suspend_user", "restore_user"}
              /\ after.exists
              /\ after.is_suspended = (adm'.action = "suspend_user")
              /\ adm'.action = "restore_user" =>
                   (after.is_suspended = FALSE /\ after.suspended_at = NULL)
              /\ before.is_suspended = (adm'.action = "suspend_user") =>
                   after.is_suspended = before.is_suspended
              /\ after.plan = before.plan
              /\ after.leads_limit = before.leads_limit
              /\ after.leads_used = before.leads_used
              /\ \A u \in Users \ {adm'.user_id} : profiles'[u] = profiles[u]
     /\ (adm.pc = "identity" /\ adm' # adm) => profiles' = profiles]_vars

\* restore_user follows a suspend_user that succeeded (the identity of the
\* target is still disabled): its write has put the Profile back to not
\* suspended, with no suspended_at.
C23_Witness ==
  /\ adm.pc = "identity" /\ adm.action = "restore_user"
  /\ identity[adm.user_id].exists /\ identity[adm.user_id].disabled
  /\ profiles[adm.user_id].exists
  /\ ~profiles[adm.user_id].is_suspended /\ profiles[adm.user_id].suspended_at = NULL
====
